---- MODULE Spec2Model ----
(***************************************************************************)
(* Model of Degman1/GATMobilityAnalysis:                                   *)
(*   src/models/hyperparameter_search.py  expanding-window grid search     *)
(*   src/models/st_gat.py                 ST_GAT forward shape pipeline    *)
(*   src/run.py                           train-or-load driver script      *)
(*                                                                         *)
(* Encoding of Python values.  TLA+ has no floats, so every float the      *)
(* program handles is carried as an integer in a fixed unit:               *)
(*   train ratios and DROPOUT in hundredths (0.7 -> 70),                   *)
(*   INITIAL_LR and WEIGHT_DECAY in units of 1e-5 (1e-4 -> 10),            *)
(*   mae as an abstract value 1..MaxMae.                                   *)
(* The one place where float rounding decides behaviour, the products      *)
(* train_ratio * num_graphs and val_ratio * num_graphs, is modelled bit    *)
(* by bit as an IEEE-754 binary64 multiplication (see FloatMulInt).        *)
(* Python's None is the empty sequence <<>>, a present value v is <<v>>.   *)
(***************************************************************************)
EXTENDS Integers, Sequences, FiniteSets, TLC

VARIABLES
    \* results.json and the clock, shared by every run of the grid search
    file,            \* results.json: [exists, text]; text is a token sequence
    now,             \* datetime.now(), as a tick counter
    \* trial processes (one step per access to results.json)
    ppc,             \* per process: position in train_expanding_window_grid_search
    prec,            \* per process: current_params / train_ratio / val_mae of its fold
    pdata,           \* per process: `data` returned by load_previous_results()
    quota,           \* per process: invocations the job scheduler still starts
    completed,       \* history: the records of the folds completed so far, in order
    \* one invocation of train_expanding_window_grid_search, statement by statement
    pc,              \* position in the function; "returned" / "raised" when it is over
    err,             \* the exception that ended the call, "" when none
    param_index,     \* argument
    fold_index,      \* argument
    config,          \* argument: the caller's dict object (shared, not copied)
    caller_config,   \* history: the caller's dict as it was at the call
    file_at_call,    \* history: results.json as it was at the call
    ratios,          \* train_ratios after line 54
    combos,          \* param_combinations after line 55
    ci,              \* position of the `for param_set` loop (1-based)
    fi,              \* position of the `for fold, train_ratio` loop (1-based)
    prev_npred,
    prev_nhist,
    dataset,
    num_graphs,
    current_params,
    train_ratio,
    train_size,
    val_size,
    epochs,
    epoch,
    val_mae,
    data,
    returned,        \* the returned tuple, None until the return
    trained,         \* history: number of models.trainer.train calls of the current fold
    val_epochs,      \* history: the epochs of the current fold at which eval ran
    built,           \* history: number of get_processed_dataset calls of this invocation
    \* fold sizing applied to one (train_ratio, num_graphs) input
    sizing,
    \* one ST_GAT.forward call: the model's dimensions and the shape of x
    fwd,
    \* one execution of run.py
    run

fileVars == <<file, now>>

procVars == <<ppc, prec, pdata, quota, completed>>

trialVars == <<pc, err, param_index, fold_index, config, caller_config, file_at_call,
               ratios, combos, ci, fi, prev_npred, prev_nhist, dataset, num_graphs,
               current_params, train_ratio, train_size, val_size, epochs, epoch,
               val_mae, data, returned, trained, val_epochs, built>>

otherVars == <<sizing, fwd, run>>

vars == <<fileVars, procVars, trialVars, otherVars>>

(***************************************************************************)
(* Bounds                                                                  *)
(***************************************************************************)
MaxTrials == 2
MaxMae == 2
MaxTrialGraphs == 2
MaxGraphs == 100
MaxBatch == 2
MaxNodes == 4
MaxHist == 12
MaxPred == 9

None == <<>>
Some(v) == <<v>>

(***************************************************************************)
(* JSON text of results.json (json.dump / json.load)                       *)
(***************************************************************************)
Punct(s) == [k |-> "punct", s |-> s]
Str(s) == [k |-> "str", s |-> s]
Num(n) == [k |-> "num", s |-> ToString(n)]

\* The caller's hyperparameter grid, keys in dict insertion order.
param_grid ==
    [keys   |-> <<"N_HIST", "N_PRED", "DROPOUT", "INITIAL_LR", "WEIGHT_DECAY">>,
     values |-> << <<12, 24>>, <<9>>, <<20>>, <<10, 50, 100, 500, 30>>, <<5>> >>]

train_ratios == <<70, 80, 90>>
val_ratio == 10

MaeValues == 1 .. MaxMae

RECURSIVE SeqRange(_)
SeqRange(s) == IF s = <<>> THEN {} ELSE {Head(s)} \cup SeqRange(Tail(s))

RECURSIVE Flatten(_)
Flatten(ss) == IF ss = <<>> THEN <<>> ELSE Head(ss) \o Flatten(Tail(ss))

\* Every number the program can write to results.json.
NumDomain == SeqRange(Flatten(param_grid.values)) \cup SeqRange(train_ratios) \cup MaeValues

\* float()/int() of a JSON number literal
NumOf(s) == CHOOSE n \in NumDomain : ToString(n) = s

DumpParams(p) ==
    <<Punct("{")>>
    \o Flatten([i \in 1 .. Len(param_grid.keys) |->
                  <<Str(param_grid.keys[i]), Num(p[param_grid.keys[i]])>>])
    \o <<Punct("}")>>

DumpRecord(r) ==
    <<Punct("{"), Str("params")>> \o DumpParams(r.params)
    \o <<Str("train_percent"), Num(r.train_percent),
         Str("mae"), Num(r.mae),
         Str("completion_time"), Str(r.completion_time),
         Punct("}")>>

JsonDump(d) ==
    <<Punct("{"), Str("Results"), Punct("[")>>
    \o Flatten([i \in 1 .. Len(d.Results) |-> DumpRecord(d.Results[i])])
    \o <<Punct("]"), Punct("}")>>

ParseFail == [ok |-> FALSE, val |-> <<>>, next |-> 0]

RECURSIVE ParseValue(_, _), ParseMembers(_, _, _), ParseElements(_, _, _)
ParseValue(t, i) ==
    IF i > Len(t) THEN ParseFail
    ELSE CASE t[i].k = "num" -> [ok |-> TRUE, val |-> NumOf(t[i].s), next |-> i + 1]
           [] t[i].k = "str" -> [ok |-> TRUE, val |-> t[i].s, next |-> i + 1]
           [] t[i] = Punct("{") -> ParseMembers(t, i + 1, <<>>)
           [] t[i] = Punct("[") -> ParseElements(t, i + 1, <<>>)
           [] OTHER -> ParseFail

ParseMembers(t, i, acc) ==
    IF i > Len(t) THEN ParseFail
    ELSE IF t[i] = Punct("}") THEN [ok |-> TRUE, val |-> acc, next |-> i + 1]
    ELSE IF t[i].k # "str" THEN ParseFail
    ELSE LET v == ParseValue(t, i + 1)
         IN  IF ~v.ok THEN ParseFail
             ELSE ParseMembers(t, v.next, (t[i].s :> v.val) @@ acc)

ParseElements(t, i, acc) ==
    IF i > Len(t) THEN ParseFail
    ELSE IF t[i] = Punct("]") THEN [ok |-> TRUE, val |-> acc, next |-> i + 1]
    ELSE LET v == ParseValue(t, i)
         IN  IF ~v.ok THEN ParseFail
             ELSE ParseElements(t, v.next, Append(acc, v.val))

\* json.load: the whole text must be one JSON value, else JSONDecodeError
JsonLoad(text) ==
    LET r == ParseValue(text, 1)
    IN  IF r.ok /\ r.next = Len(text) + 1 THEN r ELSE ParseFail

MissingFile == [exists |-> FALSE, text |-> <<>>]

\* load_previous_results() that starts from an empty list even when the file exists
load_previous_results_Fresh(f) == [raised |-> FALSE, data |-> [Results |-> <<>>]]

\* load_previous_results(): [raised, data]
load_previous_results(f) ==
    IF ~f.exists THEN [raised |-> FALSE, data |-> [Results |-> <<>>]]
    ELSE LET r == JsonLoad(f.text)
         IN  IF r.ok THEN [raised |-> FALSE, data |-> r.val]
             ELSE [raised |-> TRUE, data |-> [Results |-> <<>>]]

(***************************************************************************)
(* Hyperparameter grid (itertools.product, dict(zip(...)), list indexing)  *)
(***************************************************************************)
RECURSIVE Product(_)
Product(vs) ==
    IF vs = <<>> THEN << <<>> >>
    ELSE LET h == Head(vs)
             rest == Product(Tail(vs))
         IN  [k \in 1 .. (Len(h) * Len(rest)) |->
                <<h[((k - 1) \div Len(rest)) + 1]>> \o rest[((k - 1) % Len(rest)) + 1]]

param_combinations == Product(param_grid.values)

KeyIndex(key) == CHOOSE i \in 1 .. Len(param_grid.keys) : param_grid.keys[i] = key

\* current_params = dict(zip(param_grid.keys(), param_set))
ParamsOf(param_set) == [key \in SeqRange(param_grid.keys) |-> param_set[KeyIndex(key)]]

\* lst[i] with a 0-based Python index: negative indices count from the end,
\* anything outside -len .. len-1 raises IndexError.
PyInRange(lst, i) == (0 - Len(lst)) <= i /\ i < Len(lst)
PyIndex(lst, i) == IF i >= 0 THEN lst[i + 1] ELSE lst[Len(lst) + i + 1]

(***************************************************************************)
(* IEEE-754 binary64: int(ratio * num_graphs)                              *)
(* A bit string is a sequence over {0,1}, least significant bit first.     *)
(***************************************************************************)
\* The Python literals 0.7, 0.8, 0.9 and 0.1 as binary64 values:
\* mant (hex digits, most significant first) * 2^(-frac).
\*   0.7 = 0x1.6666666666666p-1   0.8 = 0x1.999999999999ap-1
\*   0.9 = 0x1.ccccccccccccdp-1   0.1 = 0x1.999999999999ap-4
Binary64Of(ratio) ==
    CASE ratio = 70 -> [mant |-> <<1, 6, 6, 6, 6, 6, 6, 6, 6, 6, 6, 6, 6, 6>>, frac |-> 53]
      [] ratio = 80 -> [mant |-> <<1, 9, 9, 9, 9, 9, 9, 9, 9, 9, 9, 9, 9, 10>>, frac |-> 53]
      [] ratio = 90 -> [mant |-> <<1, 12, 12, 12, 12, 12, 12, 12, 12, 12, 12, 12, 12, 13>>, frac |-> 53]
      [] ratio = 10 -> [mant |-> <<1, 9, 9, 9, 9, 9, 9, 9, 9, 9, 9, 9, 9, 10>>, frac |-> 56]

SignificandBits == 53

Nibble(d) == <<d % 2, (d \div 2) % 2, (d \div 4) % 2, (d \div 8) % 2>>

RECURSIVE HexToBits(_)
HexToBits(h) == IF h = <<>> THEN <<>> ELSE HexToBits(Tail(h)) \o Nibble(Head(h))

RECURSIVE NatToBits(_)
NatToBits(n) == IF n = 0 THEN <<>> ELSE <<n % 2>> \o NatToBits(n \div 2)

RECURSIVE BitsToNat(_)
BitsToNat(b) == IF b = <<>> THEN 0 ELSE Head(b) + 2 * BitsToNat(Tail(b))

RECURSIVE StripHigh(_)
StripHigh(b) ==
    IF b = <<>> \/ b[Len(b)] = 1 THEN b ELSE StripHigh(SubSeq(b, 1, Len(b) - 1))

\* exact product of a bit string and a natural number
RECURSIVE MulBits(_, _, _)
MulBits(b, n, carry) ==
    IF b = <<>> THEN NatToBits(carry)
    ELSE LET t == Head(b) * n + carry
         IN  <<t % 2>> \o MulBits(Tail(b), n, t \div 2)

RECURSIVE Incr(_)
Incr(b) ==
    IF b = <<>> THEN <<1>>
    ELSE IF Head(b) = 0 THEN <<1>> \o Tail(b)
    ELSE <<0>> \o Incr(Tail(b))

\* round an exact result to 53 significant bits, ties to even
RoundBinary64(b) ==
    IF Len(b) <= SignificandBits THEN b
    ELSE LET s == Len(b) - SignificandBits
             kept == SubSeq(b, s + 1, Len(b))
             half == b[s] = 1
             sticky == \E j \in 1 .. (s - 1) : b[j] = 1
             up == half /\ (sticky \/ kept[1] = 1)
         IN  [j \in 1 .. s |-> 0] \o (IF up THEN Incr(kept) ELSE kept)

\* int(ratio * n): the binary64 product, truncated to an integer
FloatMulInt(ratio, n) ==
    LET d == Binary64Of(ratio)
        p == RoundBinary64(StripHigh(MulBits(HexToBits(d.mant), n, 0)))
    IN  BitsToNat(SubSeq(p, d.frac + 1, Len(p)))

TrainSize(ratio, n) == FloatMulInt(ratio, n)
ValSize(n) == FloatMulInt(val_ratio, n)
\* the check of line 84 with >= in place of >
SizingOverflow_Strict(ts, vs, n) == ts + vs >= n

SizingOverflow(ts, vs, n) == ts + vs > n

(***************************************************************************)
(* Epoch budget                                                            *)
(***************************************************************************)
\* EpochBudget with a fallback to config['EPOCHS'] instead of the bare raise
EpochBudget_Default(lr) ==
    IF lr = 10 THEN [raised |-> FALSE, epochs |-> 100]
    ELSE IF lr = 50 THEN [raised |-> FALSE, epochs |-> 80]
    ELSE IF lr = 100 THEN [raised |-> FALSE, epochs |-> 70]
    ELSE IF lr = 500 THEN [raised |-> FALSE, epochs |-> 50]
    ELSE [raised |-> FALSE, epochs |-> 60]

EpochBudget(lr) ==
    IF lr = 10 THEN [raised |-> FALSE, epochs |-> 100]
    ELSE IF lr = 50 THEN [raised |-> FALSE, epochs |-> 80]
    ELSE IF lr = 100 THEN [raised |-> FALSE, epochs |-> 70]
    ELSE IF lr = 500 THEN [raised |-> FALSE, epochs |-> 50]
    ELSE [raised |-> TRUE, epochs |-> 0]

\* ValidationDue without the final-epoch clause
ValidationDue_EveryFifth(e, budget) == e % 5 = 0

ValidationDue(e, budget) == e % 5 = 0 \/ e = budget - 1

(***************************************************************************)
(* Trial processes sharing results.json.                                   *)
(* One process is one run of train_expanding_window_grid_search started by *)
(* the external job scheduler.  Everything a trial does before it touches  *)
(* results.json (lines 43-141) is local to the process and is one step     *)
(* here; the read, the truncating open and the dump are separate steps.    *)
(***************************************************************************)
Procs == {1, 2}

\* the param_index values the scheduler hands out in the process model:
\* (N_HIST 12, lr 1e-4), (N_HIST 12, lr 3e-4: unsupported), (N_HIST 24, lr 1e-4)
JobParamIndexes == {0, 4, 5}
JobFoldIndexes == {0, 1, 2}

\* lines 43-117 of one invocation, as a function of its inputs
TrialOutcome(pi, fidx, n) ==
    IF ~PyInRange(train_ratios, fidx) \/ ~PyInRange(param_combinations, pi)
    THEN [status |-> "index_error", params |-> <<>>, train_ratio |-> 0, epochs |-> 0]
    ELSE LET params == ParamsOf(PyIndex(param_combinations, pi))
             ratio == PyIndex(train_ratios, fidx)
             budget == EpochBudget(params["INITIAL_LR"])
         IN  IF SizingOverflow(TrainSize(ratio, n), ValSize(n), n)
             THEN [status |-> "overflow", params |-> params,
                   train_ratio |-> ratio, epochs |-> 0]
             ELSE IF budget.raised
             THEN [status |-> "lr_error", params |-> params,
                   train_ratio |-> ratio, epochs |-> 0]
             ELSE [status |-> "trained", params |-> params,
                   train_ratio |-> ratio, epochs |-> budget.epochs]

\* new_data of lines 146-151
NewData(params, ratio, mae, clock) ==
    [params |-> params, train_percent |-> ratio, mae |-> mae,
     completion_time |-> ToString(clock)]

\* lines 43-141: select the pair, size the fold, train and validate
RunTrial(p) ==
    /\ ppc[p] = "idle"
    /\ quota[p] > 0
    /\ \E pi \in JobParamIndexes, fidx \in JobFoldIndexes,
          n \in 1 .. MaxTrialGraphs, m \in MaeValues :
          LET o == TrialOutcome(pi, fidx, n)
          IN  IF o.status = "trained"
              THEN /\ ppc' = [ppc EXCEPT ![p] = "load"]
                   /\ prec' = [prec EXCEPT ![p] =
                                 Some([params |-> o.params, train_percent |-> o.train_ratio,
                                       mae |-> m])]
              ELSE /\ ppc' = [ppc EXCEPT ![p] = "idle"]
                   /\ prec' = [prec EXCEPT ![p] = None]
    /\ quota' = [quota EXCEPT ![p] = @ - 1]
    /\ UNCHANGED <<file, now, pdata, completed>>
    /\ UNCHANGED <<trialVars, otherVars>>

\* line 144: data = load_previous_results(); a JSONDecodeError ends the process
LoadResults(p) ==
    /\ ppc[p] = "load"
    /\ LET r == load_previous_results(file)
       IN  IF r.raised
           THEN /\ ppc' = [ppc EXCEPT ![p] = "idle"]
                /\ prec' = [prec EXCEPT ![p] = None]
                /\ pdata' = pdata
           ELSE /\ ppc' = [ppc EXCEPT ![p] = "open"]
                /\ prec' = prec
                /\ pdata' = [pdata EXCEPT ![p] = r.data]
    /\ UNCHANGED <<file, now, quota, completed>>
    /\ UNCHANGED <<trialVars, otherVars>>

\* line 145: open("results.json", 'w') creates or truncates the file
OpenResults(p) ==
    /\ ppc[p] = "open"
    /\ file' = [exists |-> TRUE, text |-> <<>>]
    /\ ppc' = [ppc EXCEPT ![p] = "dump"]
    /\ UNCHANGED <<now, prec, pdata, quota, completed>>
    /\ UNCHANGED <<trialVars, otherVars>>

\* The buffered dump reaches the file as one write at offset 0 of the handle
\* opened at line 145; text another writer left beyond its end stays.
WriteAtStart(f, text) ==
    [exists |-> TRUE, text |-> text \o SubSeq(f.text, Len(text) + 1, Len(f.text))]

\* DumpResults with json.dump ahead of the append: the new record is not written
DumpResults_BeforeAppend(p) ==
    /\ ppc[p] = "dump"
    /\ LET r == prec[p][1]
           appended == [Results |-> Append(pdata[p].Results,
                                           NewData(r.params, r.train_percent, r.mae, now))]
       IN  /\ pdata' = [pdata EXCEPT ![p] = appended]
           /\ file' = WriteAtStart(file, JsonDump(pdata[p]))
           /\ completed' = Append(completed, r)
    /\ now' = now + 1
    /\ ppc' = [ppc EXCEPT ![p] = "idle"]
    /\ UNCHANGED <<prec, quota>>
    /\ UNCHANGED <<trialVars, otherVars>>

\* lines 146-153 and the return: append new_data, dump, close
DumpResults(p) ==
    /\ ppc[p] = "dump"
    /\ LET r == prec[p][1]
           appended == [Results |-> Append(pdata[p].Results,
                                           NewData(r.params, r.train_percent, r.mae, now))]
       IN  /\ pdata' = [pdata EXCEPT ![p] = appended]
           /\ file' = WriteAtStart(file, JsonDump(appended))
           /\ completed' = Append(completed, r)
    /\ now' = now + 1
    /\ ppc' = [ppc EXCEPT ![p] = "idle"]
    /\ UNCHANGED <<prec, quota>>
    /\ UNCHANGED <<trialVars, otherVars>>

ProcNext == \E p \in Procs : RunTrial(p) \/ LoadResults(p) \/ OpenResults(p) \/ DumpResults(p)

ProcIdle ==
    /\ ppc = [p \in Procs |-> "idle"]
    /\ prec = [p \in Procs |-> None]
    /\ pdata = [p \in Procs |-> [Results |-> <<>>]]
    /\ completed = <<>>

\* the statement-level invocation is not running
TrialOff ==
    /\ pc = "off"
    /\ err = ""
    /\ param_index = 0
    /\ fold_index = 0
    /\ config = <<>>
    /\ caller_config = <<>>
    /\ file_at_call = MissingFile
    /\ ratios = <<>>
    /\ combos = <<>>
    /\ ci = 0
    /\ fi = 0
    /\ prev_npred = None
    /\ prev_nhist = None
    /\ dataset = None
    /\ num_graphs = None
    /\ current_params = None
    /\ train_ratio = None
    /\ train_size = None
    /\ val_size = None
    /\ epochs = None
    /\ epoch = None
    /\ val_mae = None
    /\ data = None
    /\ returned = None
    /\ trained = 0
    /\ val_epochs = <<>>
    /\ built = 0

OthersOff ==
    /\ sizing = [stage |-> "off"]
    /\ fwd = [stage |-> "off"]
    /\ run = [pc |-> "off"]

\* one trial process at a time: the scheduler runs MaxTrials trials in sequence
InitLog ==
    /\ file = MissingFile
    /\ now = 0
    /\ ProcIdle
    /\ quota = [p \in Procs |-> IF p = 1 THEN MaxTrials ELSE 0]
    /\ TrialOff
    /\ OthersOff

\* two trial processes at once
InitRace ==
    /\ file = MissingFile
    /\ now = 0
    /\ ProcIdle
    /\ quota = [p \in Procs |-> 1]
    /\ TrialOff
    /\ OthersOff

SpecLog == InitLog /\ [][ProcNext]_vars

SpecRace == InitRace /\ [][ProcNext]_vars

(***************************************************************************)
(* One invocation of train_expanding_window_grid_search, statement by      *)
(* statement.  models.trainer.train / eval and the dataloader are          *)
(* collaborators outside this repository's core: train has no effect on    *)
(* the state below, eval returns some mae, and get_processed_dataset        *)
(* returns a dataset for the window sizes found in the config it is given. *)
(***************************************************************************)
\* the caller's configuration mapping (the keys of run.py's config)
CallerConfig ==
    [BATCH_SIZE |-> 50, EPOCHS |-> 60, WEIGHT_DECAY |-> 5, INITIAL_LR |-> 30,
     CHECKPOINT_DIR |-> "runs", N_PRED |-> 9, N_HIST |-> 12, DROPOUT |-> 20,
     USE_GAT_WEIGHTS |-> TRUE]

\* what the dataset collaborator derives from the raw traces
DatasetStats == [n_nodes |-> 4, mean |-> 3, std |-> 2]

\* dataloader.breadcrumbs_dataloader.get_processed_dataset(config), for raw
\* traces that give n graphs: (dataset, mean, std_dev, ...); config is only read
get_processed_dataset(cfg, n) ==
    [dataset |-> [N_HIST |-> cfg["N_HIST"], N_PRED |-> cfg["N_PRED"],
                  num_graphs |-> n, n_nodes |-> DatasetStats.n_nodes],
     mean |-> DatasetStats.mean,
     std |-> DatasetStats.std]

\* config[key] = value landing on a private copy of the mapping
ConfigStore_Copy(cfg, key, value) == cfg

\* config[key] = value on the dict object the caller passed in
ConfigStore(cfg, key, value) == (key :> value) @@ cfg

\* line 68 testing the cache only once it holds values: an unset cache never rebuilds
RebuildDue_CachedOnly(params, pn, ph) ==
    /\ pn # None
    /\ ph # None
    /\ (params["N_PRED"] # pn[1] \/ params["N_HIST"] # ph[1])

\* line 68: current_params['N_PRED'] != prev_npred or current_params['N_HIST'] != prev_nhist
\* (an int never equals None, so an unset cache differs from every combination)
RebuildDue(params, pn, ph) ==
    Some(params["N_PRED"]) # pn \/ Some(params["N_HIST"]) # ph

\* line 54 left out: every fold of the schedule runs in the one invocation
SelectRatios_All(fidx) == train_ratios

\* line 54: train_ratios = [train_ratios[fold_index]]
SelectRatios(fidx) == <<PyIndex(train_ratios, fidx)>>

\* line 55: param_combinations = [param_combinations[param_index]]
SelectCombos(pi) == <<PyIndex(param_combinations, pi)>>

\* where control goes when a fold body ends normally (lines 80, 156, 63, 168)
LoopAfterFold ==
    IF fi < Len(ratios) THEN [pc |-> "fold", ci |-> ci, fi |-> fi + 1]
    ELSE IF ci < Len(combos) THEN [pc |-> "param_set", ci |-> ci + 1, fi |-> 0]
    ELSE [pc |-> "return", ci |-> ci, fi |-> fi]

\* where control goes on the `break` of line 86 (lines 156, 63, 168)
LoopAfterBreak ==
    IF ci < Len(combos) THEN [pc |-> "param_set", ci |-> ci + 1, fi |-> 0]
    ELSE [pc |-> "return", ci |-> ci, fi |-> fi]

\* where control goes at the end of an epoch (line 121)
EpochAfter(e, budget) ==
    IF e + 1 < budget THEN [pc |-> "train", epoch |-> Some(e + 1)]
    ELSE [pc |-> "load", epoch |-> Some(e)]

\* lines 43-61
SelectPair ==
    /\ pc = "entry"
    /\ IF ~PyInRange(train_ratios, fold_index)
          \/ ~PyInRange(param_combinations, param_index)
       THEN /\ pc' = "raised"
            /\ err' = "IndexError"
            /\ UNCHANGED <<ratios, combos, ci>>
       ELSE /\ ratios' = SelectRatios(fold_index)
            /\ combos' = SelectCombos(param_index)
            /\ ci' = 1
            /\ pc' = "param_set"
            /\ err' = err
    /\ UNCHANGED <<file, now, param_index, fold_index, config, caller_config,
                   file_at_call, fi, prev_npred, prev_nhist, dataset, num_graphs,
                   current_params, train_ratio, train_size, val_size, epochs, epoch,
                   val_mae, data, returned, trained, val_epochs>>
    /\ UNCHANGED <<procVars, otherVars, built>>

\* lines 63-78: next combination; rebuild of the dataset when the window changed
BeginParamSet ==
    /\ pc = "param_set"
    /\ LET params == ParamsOf(combos[ci])
       IN  /\ current_params' = Some(params)
           /\ IF RebuildDue(params, prev_npred, prev_nhist)
              THEN \E n \in 1 .. MaxTrialGraphs :
                     LET cfg1 == ConfigStore(config, "N_PRED", params["N_PRED"])
                         cfg2 == ConfigStore(cfg1, "N_HIST", params["N_HIST"])
                         r == get_processed_dataset(cfg2, n)
                         cfg3 == ConfigStore(cfg2, "D_MEAN", r.mean)
                         cfg4 == ConfigStore(cfg3, "D_STD_DEV", r.std)
                         cfg5 == ConfigStore(cfg4, "N_NODE", r.dataset.n_nodes)
                     IN  /\ config' = cfg5
                         /\ prev_npred' = Some(params["N_PRED"])
                         /\ prev_nhist' = Some(params["N_HIST"])
                         /\ dataset' = Some(r.dataset)
                         /\ num_graphs' = Some(r.dataset.num_graphs)
                         /\ built' = built + 1
              ELSE UNCHANGED <<config, prev_npred, prev_nhist, dataset, num_graphs, built>>
    /\ IF Len(ratios) > 0
       THEN pc' = "fold" /\ fi' = 1
       ELSE pc' = LoopAfterBreak.pc /\ fi' = 0
    /\ ci' = IF Len(ratios) > 0 THEN ci ELSE LoopAfterBreak.ci
    /\ UNCHANGED <<file, now, err, param_index, fold_index, caller_config, file_at_call,
                   ratios, combos, train_ratio, train_size, val_size, epochs, epoch,
                   val_mae, data, returned, trained, val_epochs>>
    /\ UNCHANGED <<procVars, otherVars>>

\* lines 80-94: size the fold, break on overflow, slice the subsets
SizeFold ==
    /\ pc = "fold"
    /\ LET ratio == ratios[fi]
           ts == TrainSize(ratio, num_graphs[1])
           vs == ValSize(num_graphs[1])
       IN  /\ train_ratio' = Some(ratio)
           /\ train_size' = Some(ts)
           /\ val_size' = Some(vs)
           /\ IF SizingOverflow(ts, vs, num_graphs[1])
              THEN /\ pc' = LoopAfterBreak.pc
                   /\ ci' = LoopAfterBreak.ci
                   /\ fi' = LoopAfterBreak.fi
              ELSE /\ pc' = "model"
                   /\ UNCHANGED <<ci, fi>>
    /\ UNCHANGED <<file, now, err, param_index, fold_index, config, caller_config,
                   file_at_call, ratios, combos, prev_npred, prev_nhist, dataset,
                   num_graphs, current_params, epochs, epoch, val_mae, data, returned,
                   trained, val_epochs>>
    /\ UNCHANGED <<procVars, otherVars, built>>

\* lines 97-121: fresh model and optimizer, epoch budget, val_mae = None
BuildModel ==
    /\ pc = "model"
    /\ LET budget == EpochBudget(current_params[1]["INITIAL_LR"])
       IN  IF budget.raised
           THEN /\ pc' = "raised"
                /\ err' = "RuntimeError"
                /\ UNCHANGED <<epochs, epoch, val_mae>>
           ELSE /\ epochs' = Some(budget.epochs)
                /\ val_mae' = None
                /\ err' = err
                /\ IF budget.epochs > 0
                   THEN pc' = "train" /\ epoch' = Some(0)
                   ELSE pc' = "load" /\ epoch' = epoch
    /\ trained' = 0
    /\ val_epochs' = <<>>
    /\ UNCHANGED <<file, now, param_index, fold_index, config, caller_config,
                   file_at_call, ratios, combos, ci, fi, prev_npred, prev_nhist,
                   dataset, num_graphs, current_params, train_ratio, train_size,
                   val_size, data, returned>>
    /\ UNCHANGED <<procVars, otherVars, built>>

\* lines 122-124: models.trainer.train for this epoch, then the validation test
TrainEpoch ==
    /\ pc = "train"
    /\ trained' = trained + 1
    /\ IF ValidationDue(epoch[1], epochs[1])
       THEN pc' = "validate" /\ epoch' = epoch
       ELSE /\ pc' = EpochAfter(epoch[1], epochs[1]).pc
            /\ epoch' = EpochAfter(epoch[1], epochs[1]).epoch
    /\ UNCHANGED <<file, now, err, param_index, fold_index, config, caller_config,
                   file_at_call, ratios, combos, ci, fi, prev_npred, prev_nhist,
                   dataset, num_graphs, current_params, train_ratio, train_size,
                   val_size, epochs, val_mae, data, returned, val_epochs>>
    /\ UNCHANGED <<procVars, otherVars, built>>

\* lines 125-127: models.trainer.eval on the validation loader
ValidateEpoch ==
    /\ pc = "validate"
    /\ \E m \in MaeValues : val_mae' = Some(m)
    /\ val_epochs' = Append(val_epochs, epoch[1])
    /\ pc' = EpochAfter(epoch[1], epochs[1]).pc
    /\ epoch' = EpochAfter(epoch[1], epochs[1]).epoch
    /\ UNCHANGED <<file, now, err, param_index, fold_index, config, caller_config,
                   file_at_call, ratios, combos, ci, fi, prev_npred, prev_nhist,
                   dataset, num_graphs, current_params, train_ratio, train_size,
                   val_size, epochs, data, returned, trained>>
    /\ UNCHANGED <<procVars, otherVars, built>>

\* lines 129-144: release the model, weighted sum, data = load_previous_results()
LoadPrevious ==
    /\ pc = "load"
    /\ IF val_mae = None
       THEN pc' = "raised" /\ err' = "TypeError" /\ data' = data
       ELSE LET r == load_previous_results(file)
            IN  IF r.raised
                THEN pc' = "raised" /\ err' = "JSONDecodeError" /\ data' = data
                ELSE pc' = "open" /\ err' = err /\ data' = Some(r.data)
    /\ UNCHANGED <<file, now, param_index, fold_index, config, caller_config,
                   file_at_call, ratios, combos, ci, fi, prev_npred, prev_nhist,
                   dataset, num_graphs, current_params, train_ratio, train_size,
                   val_size, epochs, epoch, val_mae, returned, trained, val_epochs>>
    /\ UNCHANGED <<procVars, otherVars, built>>

\* line 145
OpenFile ==
    /\ pc = "open"
    /\ file' = [exists |-> TRUE, text |-> <<>>]
    /\ pc' = "write"
    /\ UNCHANGED <<now, err, param_index, fold_index, config, caller_config,
                   file_at_call, ratios, combos, ci, fi, prev_npred, prev_nhist,
                   dataset, num_graphs, current_params, train_ratio, train_size,
                   val_size, epochs, epoch, val_mae, data, returned, trained,
                   val_epochs>>
    /\ UNCHANGED <<procVars, otherVars, built>>

\* lines 146-153, then on to the next fold, the next combination or the return
WriteResults ==
    /\ pc = "write"
    /\ LET appended == [Results |-> Append(data[1].Results,
                          NewData(current_params[1], train_ratio[1], val_mae[1], now))]
       IN  /\ data' = Some(appended)
           /\ file' = WriteAtStart(file, JsonDump(appended))
    /\ now' = now + 1
    /\ pc' = LoopAfterFold.pc
    /\ ci' = LoopAfterFold.ci
    /\ fi' = LoopAfterFold.fi
    /\ UNCHANGED <<err, param_index, fold_index, config, caller_config, file_at_call,
                   ratios, combos, prev_npred, prev_nhist, dataset, num_graphs,
                   current_params, train_ratio, train_size, val_size, epochs, epoch,
                   val_mae, returned, trained, val_epochs>>
    /\ UNCHANGED <<procVars, otherVars, built>>

\* line 168: return results, best_model, best_hyperparams
Return ==
    /\ pc = "return"
    /\ returned' = Some([results |-> <<>>, best_model |-> None, best_hyperparams |-> None])
    /\ pc' = "returned"
    /\ UNCHANGED <<file, now, err, param_index, fold_index, config, caller_config,
                   file_at_call, ratios, combos, ci, fi, prev_npred, prev_nhist,
                   dataset, num_graphs, current_params, train_ratio, train_size,
                   val_size, epochs, epoch, val_mae, data, trained, val_epochs>>
    /\ UNCHANGED <<procVars, otherVars, built>>

TrialNext ==
    \/ SelectPair
    \/ BeginParamSet
    \/ SizeFold
    \/ BuildModel
    \/ TrainEpoch
    \/ ValidateEpoch
    \/ LoadPrevious
    \/ OpenFile
    \/ WriteResults
    \/ Return

\* a results.json left by one earlier trial
PriorLog ==
    WriteAtStart(MissingFile,
        JsonDump([Results |-> <<NewData(ParamsOf(param_combinations[1]), 70, 1, 0)>>]))

InitTrial ==
    /\ file \in {MissingFile, PriorLog}
    /\ now = 1
    /\ ProcIdle
    /\ quota = [p \in Procs |-> 0]
    /\ pc = "entry"
    /\ err = ""
    /\ param_index \in 0 .. Len(param_combinations)
    /\ fold_index \in 0 .. Len(train_ratios)
    /\ config = CallerConfig
    /\ caller_config = config
    /\ file_at_call = file
    /\ ratios = <<>>
    /\ combos = <<>>
    /\ ci = 0
    /\ fi = 0
    /\ prev_npred = None
    /\ prev_nhist = None
    /\ dataset = None
    /\ num_graphs = None
    /\ current_params = None
    /\ train_ratio = None
    /\ train_size = None
    /\ val_size = None
    /\ epochs = None
    /\ epoch = None
    /\ val_mae = None
    /\ data = None
    /\ returned = None
    /\ trained = 0
    /\ val_epochs = <<>>
    /\ built = 0
    /\ OthersOff

SpecTrial == InitTrial /\ [][TrialNext]_vars

(***************************************************************************)
(* Fold sizing as a function of (train_ratio, num_graphs): lines 81-89     *)
(***************************************************************************)
InitFold ==
    /\ file = MissingFile
    /\ now = 0
    /\ ProcIdle
    /\ quota = [p \in Procs |-> 0]
    /\ TrialOff
    /\ \E r \in SeqRange(train_ratios), n \in 0 .. MaxGraphs :
          sizing = [stage |-> "input", train_ratio |-> r, num_graphs |-> n]
    /\ fwd = [stage |-> "off"]
    /\ run = [pc |-> "off"]

\* lines 81-89: sizes, the overflow check, the index ranges of both subsets
ApplySizing ==
    /\ sizing.stage = "input"
    /\ LET ts == TrainSize(sizing.train_ratio, sizing.num_graphs)
           vs == ValSize(sizing.num_graphs)
           over == SizingOverflow(ts, vs, sizing.num_graphs)
       IN  sizing' = [stage |-> "sized",
                      train_ratio |-> sizing.train_ratio,
                      num_graphs |-> sizing.num_graphs,
                      train_size |-> ts,
                      val_size |-> vs,
                      proceeds |-> ~over,
                      train_idx |-> IF over THEN {} ELSE 0 .. (ts - 1),
                      val_idx |-> IF over THEN {} ELSE ts .. (ts + vs - 1)]
    /\ UNCHANGED <<fileVars, procVars, trialVars, fwd, run>>

SpecFold == InitFold /\ [][ApplySizing]_vars

(***************************************************************************)
(* ST_GAT.forward: tensor shapes.  A shape is a sequence of dimensions;    *)
(* an operation torch would reject gives ShapeError.                        *)
(***************************************************************************)
NUM_HEADS == 8
lstm1_hidden_size == 32
lstm2_hidden_size == 128
n_preds == 9

ShapeError == <<0 - 1>>

RECURSIVE Numel(_)
Numel(shape) == IF shape = <<>> THEN 1 ELSE Head(shape) * Numel(Tail(shape))

\* the product of the dimensions of a view/reshape target other than -1
RECURSIVE KnownNumel(_)
KnownNumel(target) ==
    IF target = <<>> THEN 1
    ELSE (IF Head(target) = 0 - 1 THEN 1 ELSE Head(target)) * KnownNumel(Tail(target))

\* Tensor.view / torch.reshape on a contiguous tensor
Reshape(shape, target) ==
    IF shape = ShapeError THEN ShapeError
    ELSE IF \E i \in 1 .. Len(target) : target[i] = 0 - 1
    THEN IF KnownNumel(target) > 0 /\ Numel(shape) % KnownNumel(target) = 0
         THEN [i \in 1 .. Len(target) |->
                 IF target[i] = 0 - 1 THEN Numel(shape) \div KnownNumel(target)
                 ELSE target[i]]
         ELSE ShapeError
    ELSE IF Numel(target) = Numel(shape) THEN target ELSE ShapeError

RemoveDim(shape, dim) == SubSeq(shape, 1, dim) \o SubSeq(shape, dim + 2, Len(shape))

\* Tensor.mean(dim), dim 0-based
Mean(shape, dim) ==
    IF shape = ShapeError \/ dim >= Len(shape) THEN ShapeError
    ELSE RemoveDim(shape, dim)

\* torch.movedim(x, source, destination), 0-based
MoveDim(shape, source, destination) ==
    IF shape = ShapeError \/ source >= Len(shape) \/ destination >= Len(shape)
    THEN ShapeError
    ELSE LET rest == RemoveDim(shape, source)
         IN  SubSeq(rest, 1, destination) \o <<shape[source + 1]>>
             \o SubSeq(rest, destination + 1, Len(rest))

\* torch.nn.LSTM(input_size, hidden_size) on (seq, batch, input) or (seq, input)
Lstm(shape, input_size, hidden_size) ==
    IF shape = ShapeError \/ Len(shape) \notin {2, 3} THEN ShapeError
    ELSE IF shape[Len(shape)] # input_size THEN ShapeError
    ELSE SubSeq(shape, 1, Len(shape) - 1) \o <<hidden_size>>

\* x[-1, :, :]
LastStep(shape) ==
    IF shape = ShapeError \/ Len(shape) # 3 THEN ShapeError
    ELSE IF shape[1] < 1 THEN ShapeError
    ELSE <<shape[2], shape[3]>>

\* torch.squeeze: every dimension of size 1 is removed
Squeeze(shape) ==
    IF shape = ShapeError THEN ShapeError
    ELSE LET NotOne(d) == d # 1 IN SelectSeq(shape, NotOne)

\* torch.nn.Linear(in_features, out_features)
Linear(shape, in_features, out_features) ==
    IF shape = ShapeError \/ Len(shape) < 1 THEN ShapeError
    ELSE IF shape[Len(shape)] # in_features THEN ShapeError
    ELSE SubSeq(shape, 1, Len(shape) - 1) \o <<out_features>>

\* the projection sized with self.n_preds (the fixed 9) instead of self.n_pred
LinearOut_Fixed(n_nodes, n_pred) == n_nodes * n_preds

\* line 81: out_features of self.linear
LinearOut(n_nodes, n_pred) == n_nodes * n_pred

FwdStep(stage, x) == [fwd EXCEPT !.stage = stage, !.x = x]

FwdFrame == UNCHANGED <<fileVars, procVars, trialVars, sizing, run>>

\* lines 91-97: x = graph.ndata["feat"], one row of in_channels per node
FwdFeatures ==
    /\ fwd.stage = "call"
    /\ fwd' = FwdStep("feat", <<fwd.batch_size * fwd.n_nodes, fwd.in_channels>>)
    /\ FwdFrame

\* line 16: GATConv(in_feats, out_feats = in_feats, num_heads) gives (nodes, heads, out_feats)
FwdGatConv ==
    /\ fwd.stage = "feat"
    /\ fwd' = FwdStep("gatconv",
                IF Len(fwd.x) = 2 /\ fwd.x[2] = fwd.in_channels
                THEN <<fwd.x[1], NUM_HEADS, fwd.in_channels>>
                ELSE ShapeError)
    /\ FwdFrame

\* lines 19-20: h.view(h.size(0), num_heads, -1).mean(dim=1)
FwdHeadAverage ==
    /\ fwd.stage = "gatconv"
    /\ fwd' = FwdStep("averaged",
                IF fwd.x = ShapeError THEN ShapeError
                ELSE Mean(Reshape(fwd.x, <<fwd.x[1], NUM_HEADS, 0 - 1>>), 1))
    /\ FwdFrame

\* line 121: F.dropout keeps the shape
FwdDropout ==
    /\ fwd.stage = "averaged"
    /\ fwd' = FwdStep("dropout", fwd.x)
    /\ FwdFrame

\* lines 124-128: torch.reshape(x, (batch_size, n_node, -1))
FwdReshape ==
    /\ fwd.stage = "dropout"
    /\ fwd' = FwdStep("batched", Reshape(fwd.x, <<fwd.batch_size, fwd.n_nodes, 0 - 1>>))
    /\ FwdFrame

\* line 131: torch.movedim(x, 2, 0)
FwdMoveDim ==
    /\ fwd.stage = "batched"
    /\ fwd' = FwdStep("sequence", MoveDim(fwd.x, 2, 0))
    /\ FwdFrame

\* line 134: lstm1, input_size = n_nodes
FwdLstm1 ==
    /\ fwd.stage = "sequence"
    /\ fwd' = FwdStep("lstm1", Lstm(fwd.x, fwd.n_nodes, lstm1_hidden_size))
    /\ FwdFrame

\* line 135: lstm2
FwdLstm2 ==
    /\ fwd.stage = "lstm1"
    /\ fwd' = FwdStep("lstm2", Lstm(fwd.x, lstm1_hidden_size, lstm2_hidden_size))
    /\ FwdFrame

\* line 138: torch.squeeze(x[-1, :, :])
FwdLastStep ==
    /\ fwd.stage = "lstm2"
    /\ fwd' = FwdStep("last", Squeeze(LastStep(fwd.x)))
    /\ FwdFrame

\* line 141: self.linear
FwdLinear ==
    /\ fwd.stage = "last"
    /\ fwd' = FwdStep("linear",
                Linear(fwd.x, lstm2_hidden_size, LinearOut(fwd.n_nodes, fwd.n_pred)))
    /\ FwdFrame

\* lines 144-147: the two reshapes and the return
FwdOutput ==
    /\ fwd.stage = "linear"
    /\ fwd' = FwdStep("returned",
                Reshape(Reshape(fwd.x, <<fwd.batch_size, fwd.n_nodes, fwd.n_pred>>),
                        <<fwd.batch_size * fwd.n_nodes, fwd.n_pred>>))
    /\ FwdFrame

FwdNext ==
    \/ FwdFeatures
    \/ FwdGatConv
    \/ FwdHeadAverage
    \/ FwdDropout
    \/ FwdReshape
    \/ FwdMoveDim
    \/ FwdLstm1
    \/ FwdLstm2
    \/ FwdLastStep
    \/ FwdLinear
    \/ FwdOutput

\* a model built for N nodes, H inputs and P outputs, called on a batch of B
\* graphs of N nodes each
InitFwd ==
    /\ file = MissingFile
    /\ now = 0
    /\ ProcIdle
    /\ quota = [p \in Procs |-> 0]
    /\ TrialOff
    /\ sizing = [stage |-> "off"]
    /\ \E b \in 1 .. MaxBatch, n \in 1 .. MaxNodes, h \in 1 .. MaxHist, q \in 1 .. MaxPred :
          fwd = [stage |-> "call", batch_size |-> b, n_nodes |-> n,
                 in_channels |-> h, n_pred |-> q, x |-> <<>>]
    /\ run = [pc |-> "off"]

SpecFwd == InitFwd /\ [][FwdNext]_vars

(***************************************************************************)
(* run.py: load the checkpoint or train, then test inference               *)
(***************************************************************************)
\* lines 29-39
RunConfig ==
    [BATCH_SIZE |-> 50, EPOCHS |-> 60, WEIGHT_DECAY |-> 5, INITIAL_LR |-> 30,
     CHECKPOINT_DIR |-> "runs", N_PRED |-> 9, N_HIST |-> 12, DROPOUT |-> 20,
     USE_GAT_WEIGHTS |-> TRUE]

RunFrame == UNCHANGED <<fileVars, procVars, trialVars, sizing, fwd>>

\* line 54
SkipTraining(model_file, attn_file, retrain) == model_file /\ attn_file /\ ~retrain

\* the config keys line 56 reads
ModelKeys == {"N_HIST", "N_PRED", "N_NODE", "DROPOUT"}

\* lines 41-52: dataset, normalisation statistics, paths
RunLoadDataset ==
    /\ run.pc = "start"
    /\ LET r == get_processed_dataset(run.config, 1)
           cfg1 == ConfigStore(run.config, "D_MEAN", r.mean)
           cfg2 == ConfigStore(cfg1, "D_STD_DEV", r.std)
       IN  run' = [run EXCEPT !.pc = "branch", !.config = cfg2, !.dataset = Some(r.dataset)]
    /\ RunFrame

\* line 54
RunBranch ==
    /\ run.pc = "branch"
    /\ run' = IF SkipTraining(run.model_file, run.attn_file, run.RETRAIN)
              THEN [run EXCEPT !.pc = "load", !.branch = "load"]
              ELSE [run EXCEPT !.pc = "train", !.branch = "train"]
    /\ RunFrame

\* lines 55-59: rebuild the model from config and load both checkpoints;
\* reading a key the dict does not have raises KeyError
RunLoadCheckpoint ==
    /\ run.pc = "load"
    /\ run' = IF ModelKeys \subseteq DOMAIN run.config
              THEN [run EXCEPT !.pc = "inference", !.model = Some("loaded"),
                               !.attn = Some("loaded")]
              ELSE [run EXCEPT !.pc = "raised", !.err = "KeyError"]
    /\ RunFrame

\* lines 61-66: N_NODE from the dataset, then models.trainer.model_train
RunTrain ==
    /\ run.pc = "train"
    /\ run' = [run EXCEPT !.pc = "save",
                          !.config = ConfigStore(run.config, "N_NODE", run.dataset[1].n_nodes),
                          !.model = Some("trained"),
                          !.attn = Some("trained")]
    /\ RunFrame

\* lines 68-73
RunSave ==
    /\ run.pc = "save"
    /\ run' = [run EXCEPT !.pc = "inference",
                          !.attn_file = run.attn_file \/ run.SAVE_ATTENTION,
                          !.model_file = run.model_file \/ run.SAVE_MODEL]
    /\ RunFrame

\* line 76: models.trainer.eval(model, ...); an unbound `model` raises NameError
RunInference ==
    /\ run.pc = "inference"
    /\ run' = IF run.model = None
              THEN [run EXCEPT !.pc = "raised", !.err = "NameError"]
              ELSE [run EXCEPT !.pc = "done"]
    /\ RunFrame

RunNext ==
    \/ RunLoadDataset
    \/ RunBranch
    \/ RunLoadCheckpoint
    \/ RunTrain
    \/ RunSave
    \/ RunInference

InitRun ==
    /\ file = MissingFile
    /\ now = 0
    /\ ProcIdle
    /\ quota = [p \in Procs |-> 0]
    /\ TrialOff
    /\ sizing = [stage |-> "off"]
    /\ fwd = [stage |-> "off"]
    /\ \E mf \in BOOLEAN, af \in BOOLEAN, rt \in BOOLEAN, sm \in BOOLEAN, sa \in BOOLEAN :
          run = [pc |-> "start", config |-> RunConfig, dataset |-> None,
                 model_file |-> mf, attn_file |-> af,
                 RETRAIN |-> rt, SAVE_MODEL |-> sm, SAVE_ATTENTION |-> sa,
                 at_start |-> [model_file |-> mf, attn_file |-> af],
                 branch |-> "", model |-> None, attn |-> None, err |-> ""]

SpecRun == InitRun /\ [][RunNext]_vars

\* the fields of a logged record that identify its fold
FoldOf(rec) == [params |-> rec["params"], train_percent |-> rec["train_percent"],
                mae |-> rec["mae"]]

LogRecords(f) == JsonLoad(f.text).val["Results"]

LogFolds(f) == [i \in 1 .. Len(LogRecords(f)) |-> FoldOf(LogRecords(f)[i])]

\* C1: with one trial process at a time and results.json missing at the
\* start, whenever no rewrite is in progress the file is missing exactly when
\* no fold has completed, and otherwise parses to a "Results" list that holds
\* one record per completed fold, in completion order, each with that fold's
\* params, train_percent and mae.
C1_LogRoundTrip ==
    (\A p \in Procs : ppc[p] # "dump") =>
        IF completed = <<>> THEN ~file.exists
        ELSE /\ file.exists
             /\ JsonLoad(file.text).ok
             /\ DOMAIN JsonLoad(file.text).val = {"Results"}
             /\ LogFolds(file) = completed

C1_Witness ==
    /\ \A p \in Procs : ppc[p] = "idle"
    /\ Len(completed) = MaxTrials
    /\ completed[1] # completed[2]
    /\ file.exists
    /\ Len(LogRecords(file)) = MaxTrials

\* C2: with two trial processes and no mutual exclusion, once both trials have
\* completed the file parses and holds either both records in completion
\* order or only the record of the trial that dumped last; the earlier
\* trial's record is missing exactly when both processes had read the log
\* before either one dumped (each appended to an empty list).
C2_LostUpdateShape ==
    ((\A p \in Procs : ppc[p] = "idle") /\ Len(completed) = 2) =>
        /\ file.exists
        /\ JsonLoad(file.text).ok
        /\ LogFolds(file) \in {completed, <<completed[2]>>}
        /\ (Len(LogRecords(file)) < Len(completed)
              <=> \A p \in Procs : Len(pdata[p].Results) = 1)

\* both trials have completed and the log holds fewer records than trials
C2_Witness ==
    /\ \A p \in Procs : ppc[p] = "idle"
    /\ Len(completed) = 2
    /\ file.exists
    /\ JsonLoad(file.text).ok
    /\ Len(LogRecords(file)) = 1

\* the record list of a results.json that may be missing
PriorRecords(f) == IF f.exists THEN LogRecords(f) ELSE <<>>

\* the invocation ran its whole epoch budget
FullBudget == epochs # None /\ trained = epochs[1]

\* the combination at param_index, read off the grid by hand: INITIAL_LR is
\* the fastest-varying key with five values, N_HIST the slowest with two
ExpectedParams ==
    [N_HIST |-> IF param_index < 5 THEN 12 ELSE 24,
     N_PRED |-> 9,
     DROPOUT |-> 20,
     INITIAL_LR |-> CASE param_index % 5 = 0 -> 10
                      [] param_index % 5 = 1 -> 50
                      [] param_index % 5 = 2 -> 100
                      [] param_index % 5 = 3 -> 500
                      [] param_index % 5 = 4 -> 30,
     WEIGHT_DECAY |-> 5]

ExpectedRatio ==
    CASE fold_index = 0 -> 70
      [] fold_index = 1 -> 80
      [] fold_index = 2 -> 90

\* C3: the epoch budget is fixed by INITIAL_LR alone: 1e-4 -> 100, 5e-4 -> 80,
\* 1e-3 -> 70, 5e-3 -> 50; with any other learning rate the invocation ends
\* in the bare raise (a RuntimeError) with no epoch budget, before any
\* training or validation call, and never trains.
C3_EpochBudget ==
    current_params # None =>
        LET lr == current_params[1]["INITIAL_LR"]
        IN  /\ pc \in {"train", "validate", "load", "open", "write", "return", "returned"} =>
                epochs = Some(CASE lr = 10 -> 100
                                [] lr = 50 -> 80
                                [] lr = 100 -> 70
                                [] lr = 500 -> 50
                                [] OTHER -> 0)
            /\ lr \notin {10, 50, 100, 500} =>
                /\ pc \in {"fold", "model", "raised"}
                /\ pc = "raised" => err = "RuntimeError"
                /\ epochs = None
                /\ trained = 0
                /\ val_epochs = <<>>
            /\ err = "RuntimeError" => lr \notin {10, 50, 100, 500}

C3_Witness ==
    /\ pc = "raised"
    /\ err = "RuntimeError"
    /\ current_params[1]["INITIAL_LR"] = 30
    /\ trained = 0

\* C8 as stated: the caller's config mapping is the same after the call
C8_ConfigUnchanged == pc = "returned" => config = caller_config

RebuildKeys == {"N_PRED", "N_HIST", "D_MEAN", "D_STD_DEV", "N_NODE"}

\* C8 amended: config is the caller's own dict.  Before the dataset rebuild it
\* is untouched; from the rebuild on, N_PRED and N_HIST hold the selected
\* combination's values, D_MEAN, D_STD_DEV and N_NODE hold what the rebuilt
\* dataset gave, and every other key keeps the caller's value.
C8_ConfigByReference ==
    IF dataset = None THEN config = caller_config
    ELSE /\ DOMAIN config = DOMAIN caller_config \cup RebuildKeys
         /\ \A key \in DOMAIN caller_config \ RebuildKeys : config[key] = caller_config[key]
         /\ config["N_PRED"] = ExpectedParams.N_PRED
         /\ config["N_HIST"] = ExpectedParams.N_HIST
         /\ config["D_MEAN"] = DatasetStats.mean
         /\ config["D_STD_DEV"] = DatasetStats.std
         /\ config["N_NODE"] = DatasetStats.n_nodes

C8_Witness ==
    /\ pc = "returned"
    /\ config["N_HIST"] # caller_config["N_HIST"]
    /\ "D_MEAN" \in DOMAIN config

DueEpochs(budget, upto) ==
    LET Due(e) == e % 5 = 0 \/ e = budget - 1
    IN  SelectSeq([i \in 1 .. upto |-> i - 1], Due)

\* C10: within a fold, train has been called for epochs 0..e when eval runs
\* for epoch e, eval runs at exactly the epochs e with e mod 5 = 0 or
\* e = E-1, and from the end of the epoch loop on all E epochs were trained,
\* val_mae is set, its last assignment was by the eval of epoch E-1, and the
\* record written to results.json carries that val_mae.
C10_ValidationSchedule ==
    /\ pc = "train" =>
          /\ trained = epoch[1]
          /\ val_epochs = DueEpochs(epochs[1], epoch[1])
    /\ pc = "validate" =>
          /\ trained = epoch[1] + 1
          /\ epoch[1] % 5 = 0 \/ epoch[1] = epochs[1] - 1
          /\ val_epochs = DueEpochs(epochs[1], epoch[1])
    /\ pc \in {"load", "open", "write", "return", "returned"} =>
          /\ trained = epochs[1]
          /\ val_mae # None
          /\ val_epochs = DueEpochs(epochs[1], epochs[1])
          /\ val_epochs[Len(val_epochs)] = epochs[1] - 1
    /\ pc \in {"return", "returned"} =>
          LogRecords(file)[Len(LogRecords(file))]["mae"] = val_mae[1]

C10_Witness ==
    /\ pc = "returned"
    /\ epochs = Some(100)
    /\ trained = 100
    /\ Len(val_epochs) = 21
    /\ val_epochs[21] = 99
    /\ LogRecords(file)[Len(LogRecords(file))]["mae"] = val_mae[1]

\* C4 as stated: both sizes are exact floors of the decimal products, the
\* check passes, and the index ranges are disjoint and inside [0, num_graphs)
C4_ExactFloor ==
    sizing.stage = "sized" =>
        /\ sizing.train_size = (sizing.train_ratio * sizing.num_graphs) \div 100
        /\ sizing.val_size = (val_ratio * sizing.num_graphs) \div 100
        /\ sizing.proceeds
        /\ sizing.train_idx \cap sizing.val_idx = {}
        /\ sizing.train_idx \cup sizing.val_idx \subseteq 0 .. (sizing.num_graphs - 1)

\* C4 amended: the sizes are the truncated binary64 products.  val_size is
\* floor(0.1 * num_graphs); train_size is floor(train_ratio * num_graphs),
\* except that for train_ratio 0.7 and a num_graphs that is a multiple of ten
\* it can be one less (num_graphs = 90 gives 62, not 63).  The check passes
\* for every ratio of the schedule and every num_graphs (100 gives 90 + 10,
\* 99 gives 89 + 9), and the two index ranges have train_size and val_size
\* elements, are disjoint and lie inside [0, num_graphs).
C4_TruncatedProduct ==
    sizing.stage = "sized" =>
        LET n == sizing.num_graphs
            exact == (sizing.train_ratio * n) \div 100
        IN  /\ sizing.train_size \in {exact, exact - 1}
            /\ sizing.train_size # exact => sizing.train_ratio = 70 /\ n % 10 = 0
            /\ (sizing.train_ratio = 70 /\ n = 90) => sizing.train_size = 62
            /\ sizing.val_size = n \div 10
            /\ sizing.proceeds
            /\ (sizing.train_ratio = 90 /\ n = 100) =>
                  sizing.train_size = 90 /\ sizing.val_size = 10
            /\ (sizing.train_ratio = 90 /\ n = 99) =>
                  sizing.train_size = 89 /\ sizing.val_size = 9
            /\ Cardinality(sizing.train_idx) = sizing.train_size
            /\ Cardinality(sizing.val_idx) = sizing.val_size
            /\ sizing.train_idx \cap sizing.val_idx = {}
            /\ sizing.train_idx \cup sizing.val_idx \subseteq 0 .. (n - 1)

C4_Witness ==
    /\ sizing.stage = "sized"
    /\ sizing.train_ratio = 70
    /\ sizing.num_graphs = 90
    /\ sizing.train_size = 62
    /\ sizing.val_size = 9
    /\ sizing.proceeds

\* C5: for a batch of B graphs of N nodes, H inputs per node and P outputs,
\* x has the shapes (B*N, H) after head averaging, (B, N, H) after the
\* reshape, (H, B, N) after movedim, (H, B, 32) and (H, B, 128) after the
\* LSTMs, and forward returns (B*N, P); no step is rejected.
C5_ForwardShape ==
    LET b == fwd.batch_size
        n == fwd.n_nodes
        h == fwd.in_channels
        q == fwd.n_pred
    IN  /\ fwd.stage \notin {"off", "call"} => fwd.x # ShapeError
        /\ fwd.stage = "feat" => fwd.x = <<b * n, h>>
        /\ fwd.stage \in {"averaged", "dropout"} => fwd.x = <<b * n, h>>
        /\ fwd.stage = "batched" => fwd.x = <<b, n, h>>
        /\ fwd.stage = "sequence" => fwd.x = <<h, b, n>>
        /\ fwd.stage = "lstm1" => fwd.x = <<h, b, 32>>
        /\ fwd.stage = "lstm2" => fwd.x = <<h, b, 128>>
        /\ fwd.stage = "last" => fwd.x = IF b = 1 THEN <<128>> ELSE <<b, 128>>
        /\ fwd.stage = "returned" => fwd.x = <<b * n, q>>

C5_Witness ==
    /\ fwd.stage = "returned"
    /\ fwd.batch_size = 1
    /\ fwd.n_nodes = 4
    /\ fwd.in_channels = 12
    /\ fwd.n_pred = 9
    /\ fwd.x = <<4, 9>>

\* C6: training is skipped exactly when both checkpoint files existed at the
\* start and RETRAIN is false, and in either branch the run gets to test
\* inference with a model: the training branch with the trained one, the
\* skipping branch with the loaded one.
C6_TrainUnlessCheckpoint ==
    /\ run.branch # "" =>
          (run.branch = "load"
             <=> (run.at_start.model_file /\ run.at_start.attn_file /\ ~run.RETRAIN))
    /\ (run.branch = "train" /\ run.pc \in {"save", "inference", "done"}) =>
          run.model = Some("trained")
    /\ (run.branch = "load" /\ run.pc # "load") =>
          /\ run.pc \in {"inference", "done"}
          /\ run.model = Some("loaded")

\* C7: when both checkpoint files exist and RETRAIN is false, every config key
\* the model is rebuilt from is defined at line 56, and the run reaches test
\* inference with the loaded model, without training and without an error.
C7_CheckpointLoadable ==
    run.branch = "load" =>
        /\ ModelKeys \subseteq DOMAIN run.config
        /\ run.pc # "raised"
        /\ run.err = ""
        /\ run.pc \in {"inference", "done"} => run.model = Some("loaded")

\* the positions at which a fold is sized, sliced, trained, validated or logged
InFold == pc \in {"fold", "model", "train", "validate", "load", "open", "write"}

\* the cached window sizes are unset or differ from the combination's
WindowChanged(params) ==
    \/ prev_npred = None
    \/ prev_nhist = None
    \/ prev_npred[1] # params["N_PRED"]
    \/ prev_nhist[1] # params["N_HIST"]

\* the dataset in use was built for the window sizes of params, and the cache,
\* num_graphs and the config's statistics and node count belong to that build
BuiltFor(params) ==
    /\ dataset # None
    /\ dataset[1].N_HIST = params["N_HIST"]
    /\ dataset[1].N_PRED = params["N_PRED"]
    /\ num_graphs = Some(dataset[1].num_graphs)
    /\ num_graphs[1] >= 1
    /\ prev_nhist = Some(params["N_HIST"])
    /\ prev_npred = Some(params["N_PRED"])
    /\ {"D_MEAN", "D_STD_DEV", "N_NODE"} \subseteq DOMAIN config
    /\ config["N_NODE"] = dataset[1].n_nodes

\* a combination is taken up: the dataset is built once more exactly when the
\* window changed, and is left as it was otherwise
C11_ParamSetStep ==
    LET params == ParamsOf(combos[ci])
    IN  /\ WindowChanged(params) =>
            /\ built' = built + 1
            /\ dataset' # None
            /\ dataset'[1].N_HIST = params["N_HIST"]
            /\ dataset'[1].N_PRED = params["N_PRED"]
            /\ num_graphs' = Some(dataset'[1].num_graphs)
            /\ prev_nhist' = Some(params["N_HIST"])
            /\ prev_npred' = Some(params["N_PRED"])
        /\ ~WindowChanged(params) =>
            UNCHANGED <<built, dataset, num_graphs, prev_nhist, prev_npred, config>>

\* every step: only taking up a combination touches the dataset and the cache
C11_Step ==
    IF pc = "param_set"
    THEN C11_ParamSetStep
    ELSE UNCHANGED <<built, dataset, num_graphs, prev_nhist, prev_npred>>

\* whenever a fold is sized, sliced or trained, the dataset is set, was built
\* for the current combination's window, and the first combination built it
C11_DatasetCurrent ==
    /\ (pc = "entry" \/ (pc = "param_set" /\ ci = 1)) =>
          built = 0 /\ dataset = None /\ prev_npred = None /\ prev_nhist = None
    /\ InFold =>
          /\ current_params # None
          /\ BuiltFor(current_params[1])
          /\ built >= 1

\* C11: over the combinations one invocation processes, the dataset (with its
\* statistics, node count and num_graphs) is rebuilt exactly when the
\* combination's N_HIST or N_PRED differs from the cached previous values,
\* which start unset so that the first combination always rebuilds, and is
\* reused otherwise; whenever a fold is sized, sliced or trained the dataset in
\* use is set and was built with the current combination's N_HIST and N_PRED.
C11_RebuildRule == []C11_DatasetCurrent /\ [][C11_Step]_vars

C11_Witness ==
    /\ pc = "train"
    /\ built = 1
    /\ param_index = 7
    /\ caller_config["N_HIST"] = 12
    /\ current_params[1]["N_HIST"] = 24
    /\ dataset[1].N_HIST = 24
    /\ config["N_HIST"] = 24
    /\ num_graphs = Some(2)

====
